---- MODULE Spec2Model ----
(***************************************************************************)
(* Model of app.py, the automated one-way ANOVA script: one run of the     *)
(* script from "Step 1 - Load Dataset" to "Step 7 - Interpretation".       *)
(*                                                                         *)
(* A data frame is a record of its non-numeric (categorical) columns and   *)
(* its numeric columns, each column a sequence of cells of the same        *)
(* length; a column's name is its position.  A missing cell is NA.         *)
(* Labels are integers that stand for the rank of the label text in        *)
(* pandas' sort order.  Observations are integers, and the F statistic is  *)
(* kept as an exact fraction; the p-value is kept as the upper tail of the *)
(* F distribution at that fraction, and compared with 0.05 through the     *)
(* distribution's upper 5% points.                                         *)
(***************************************************************************)
EXTENDS Integers, Sequences, FiniteSets, TLC

VARIABLES pc, df, out, auto_label_col, auto_value_col, label_col, value_col,
          groups, group_keys, f_stat, p_value, tukey

vars == <<pc, df, out, auto_label_col, auto_value_col, label_col, value_col,
          groups, group_keys, f_stat, p_value, tukey>>

(***************************************************************************)
(* Bounds of the model.                                                    *)
(***************************************************************************)
MaxRows == 4
MaxCatCols == 2
MaxDistinct == 21
MaxTotalObs == 7

\* a missing cell (NaN), and Python's None
NA == -1
None == 0

Labels == {1, 2}
Values == {0, 1, 9}
EvalValues == {0, 1, 2}

NoDf == [cat |-> <<>>, num |-> <<>>]
NoStat == [kind |-> "none"]
NoTukey == [called |-> FALSE]

(***************************************************************************)
(* Arithmetic helpers.                                                     *)
(***************************************************************************)
RECURSIVE Gcd(_, _)
Gcd(a, b) == IF b = 0 THEN a ELSE Gcd(b, a % b)

RECURSIVE SumSeq(_)
SumSeq(s) == IF s = <<>> THEN 0 ELSE Head(s) + SumSeq(Tail(s))

RECURSIVE SumSq(_)
SumSq(s) == IF s = <<>> THEN 0 ELSE Head(s) * Head(s) + SumSq(Tail(s))

RECURSIVE Concat(_)
Concat(gs) == IF gs = <<>> THEN <<>> ELSE Head(gs) \o Concat(Tail(gs))

RECURSIVE ProdLen(_)
ProdLen(gs) == IF gs = <<>> THEN 1 ELSE Len(Head(gs)) * ProdLen(Tail(gs))

RECURSIVE SetToSortedSeq(_)
SetToSortedSeq(S) ==
    IF S = {} THEN <<>>
    ELSE LET m == CHOOSE x \in S : \A y \in S : x <= y
         IN <<m>> \o SetToSortedSeq(S \ {m})

\* the subsequence of s at the positions I, in position order
RECURSIVE Pick(_, _)
Pick(s, I) ==
    IF I = {} THEN <<>>
    ELSE LET m == CHOOSE x \in I : \A y \in I : x <= y
         IN <<s[m]>> \o Pick(s, I \ {m})

Range(s) == {s[i] : i \in DOMAIN s}

(***************************************************************************)
(* pandas: nunique, notna().sum(), dropna, groupby.                        *)
(***************************************************************************)
nunique(col) == Cardinality(Range(col) \ {NA})

notna_sum(col) == Cardinality({i \in DOMAIN col : col[i] # NA})

dropna(col) == Pick(col, {i \in DOMAIN col : col[i] # NA})

\* the position of the first row that carries the label
first_index(labels, key) == CHOOSE i \in DOMAIN labels : labels[i] = key /\ \A j \in 1..(i - 1) : labels[j] # key

RECURSIVE by_first_index(_, _)
by_first_index(labels, S) ==
    IF S = {} THEN <<>>
    ELSE LET m == CHOOSE x \in S : \A y \in S : first_index(labels, x) <= first_index(labels, y)
         IN <<m>> \o by_first_index(labels, S \ {m})

\* groupby(label, sort=False): the keys in order of first occurrence
groupby_keys_unsorted(labels) == by_first_index(labels, Range(labels) \ {NA})

\* the keys of df.groupby(label): the distinct non-missing labels, sorted
groupby_keys(labels) == SetToSortedSeq(Range(labels) \ {NA})

\* the rows of one group
group_rows(labels, key) == {i \in DOMAIN labels : labels[i] = key}

\* the keys of the groups that pass "if len(g) > 1"
kept_keys(labels) ==
    SelectSeq(groupby_keys(labels), LAMBDA k : Cardinality(group_rows(labels, k)) > 1)

\* groups = [g[value_col].dropna() for _, g in df.groupby(label_col) if len(g) > 1]
select_groups(labels, values) ==
    LET ks == kept_keys(labels)
    IN [i \in 1..Len(ks) |-> dropna(Pick(values, group_rows(labels, ks[i])))]

(***************************************************************************)
(* scipy.stats.f_oneway, in exact arithmetic.  The sums of squares are     *)
(* scaled by N * (product of the group sizes) so that they stay integers.  *)
(***************************************************************************)
RECURSIVE TotalLen(_)
TotalLen(gs) == IF gs = <<>> THEN 0 ELSE Len(Head(gs)) + TotalLen(Tail(gs))

RECURSIVE TotalSum(_)
TotalSum(gs) == IF gs = <<>> THEN 0 ELSE SumSeq(Head(gs)) + TotalSum(Tail(gs))

RECURSIVE TotalSq(_)
TotalSq(gs) == IF gs = <<>> THEN 0 ELSE SumSq(Head(gs)) + TotalSq(Tail(gs))

ss_scale(gs) == TotalLen(gs) * ProdLen(gs)

RECURSIVE sq_sums_scaled(_, _)
sq_sums_scaled(gs, D) ==
    IF gs = <<>> THEN 0
    ELSE SumSeq(Head(gs)) * SumSeq(Head(gs)) * (D \div Len(Head(gs)))
         + sq_sums_scaled(Tail(gs), D)

\* the grand total taken over all groups but the last
ss_between_skip_last(gs) ==
    LET D == ss_scale(gs)
        T == TotalSum(SubSeq(gs, 1, Len(gs) - 1))
    IN sq_sums_scaled(gs, D) - T * T * (D \div TotalLen(gs))

\* between-group sum of squares, times ss_scale(gs)
ss_between(gs) ==
    LET D == ss_scale(gs)
        T == TotalSum(gs)
    IN sq_sums_scaled(gs, D) - T * T * (D \div TotalLen(gs))

\* within-group sum of squares, times ss_scale(gs)
ss_within(gs) ==
    LET D == ss_scale(gs)
    IN TotalSq(gs) * D - sq_sums_scaled(gs, D)

Nan == [kind |-> "nan"]
Inf == [kind |-> "inf"]
Zero == [kind |-> "zero"]

\* f = msb / msw under np.errstate(divide='ignore', invalid='ignore')
Fraction(n, d) ==
    IF d = 0 THEN (IF n = 0 THEN Nan ELSE Inf)
    ELSE LET g == Gcd(n, d)
         IN [kind |-> "fin", num |-> n \div g, den |-> d \div g]

\* special.fdtrc(dfbn, dfwn, f): the upper tail of F(dfbn, dfwn) at f
fdtrc(dfbn, dfwn, f) ==
    IF f.kind = "nan" THEN Nan
    ELSE IF f.kind = "inf" THEN Zero
    ELSE [kind |-> "sf", dfn |-> dfbn, dfd |-> dfwn, num |-> f.num, den |-> f.den]

is_const(g) == \A j \in DOMAIN g : g[j] = g[1]

\* every constant input taken as undefined
const_fix_all_nan(all_const, all_same_const, r) ==
    IF all_const THEN [f |-> Nan, p |-> Nan] ELSE r

\* "Fix any f values that should be inf or nan because the corresponding
\* inputs were constant."
const_fix(all_const, all_same_const, r) ==
    IF all_same_const THEN [f |-> Nan, p |-> Nan]
    ELSE IF all_const THEN [f |-> Inf, p |-> Zero]
    ELSE r

f_oneway(gs) ==
    LET k == Len(gs)
        bign == TotalLen(gs)
    IN IF k < 2 THEN [f |-> [kind |-> "raise"], p |-> [kind |-> "raise"]]
       ELSE IF \E i \in 1..k : Len(gs[i]) = 0 THEN [f |-> Nan, p |-> Nan]
       ELSE IF \A i \in 1..k : Len(gs[i]) = 1 THEN [f |-> Nan, p |-> Nan]
       ELSE LET all_const == \A i \in 1..k : is_const(gs[i])
                all_same_const == is_const(Concat(gs))
                dfbn == k - 1
                dfwn == bign - k
                f == Fraction(ss_between(gs) * dfwn, ss_within(gs) * dfbn)
            IN const_fix(all_const, all_same_const, [f |-> f, p |-> fdtrc(dfbn, dfwn, f)])

(***************************************************************************)
(* "p_value < 0.05".  The upper 5% points of the F distribution, times     *)
(* 10000, by numerator degrees of freedom (1..3) and denominator degrees   *)
(* of freedom (1..9): the tail at f is below 0.05 exactly when f is above  *)
(* the point.  A NaN compares False.                                       *)
(***************************************************************************)
F05 ==
    << <<1614476, 185128, 101280, 77086, 66079, 59874, 55914, 53177, 51174>>,
       <<1995000, 190000,  95521, 69443, 57861, 51433, 47374, 44590, 42565>>,
       <<2157073, 191643,  92766, 65914, 54095, 47571, 43468, 40662, 38625>> >>

significant(p) ==
    \/ p.kind = "zero"
    \/ /\ p.kind = "sf"
       /\ p.num * 10000 > F05[p.dfn][p.dfd] * p.den

(***************************************************************************)
(* The inputs of a run: the data sets the fetch or the upload can yield.   *)
(* A non-numeric column holds at least one label (an all-missing column is *)
(* read as numeric).                                                       *)
(***************************************************************************)
LabelCells == Labels \cup {NA}

ValueCells == Values \cup {NA}

is_object_col(c) == \E i \in DOMAIN c : c[i] # NA

\* pd.read_csv of a file with one label column and one value column
read_csv(l, v) == [cat |-> <<l>>, num |-> <<v>>]

(***************************************************************************)
(* Step 1 - Load Dataset.                                                  *)
(***************************************************************************)
\* pd.read_csv(url) returns, or raises and the uploader is shown
Fetch ==
    /\ pc = "load"
    /\ \/ \E n \in 1..MaxRows : \E l \in [1..n -> LabelCells], v \in [1..n -> ValueCells] :
            /\ is_object_col(l)
            /\ df' = read_csv(l, v)
            /\ out' = out \cup {"load_success"}
            /\ pc' = "step2"
       \/ /\ out' = out \cup {"load_error"}
          /\ pc' = "upload"
          /\ UNCHANGED df
    /\ UNCHANGED <<auto_label_col, auto_value_col, label_col, value_col,
                   groups, group_keys, f_stat, p_value, tukey>>

\* the uploader without its st.stop(): with no file the script goes on
Upload_continues ==
    /\ pc = "upload"
    /\ \/ /\ pc' = "step2"
          /\ UNCHANGED <<df, out>>
       \/ \E n \in 1..MaxRows : \E l \in [1..n -> LabelCells], v \in [1..n -> ValueCells] :
            /\ is_object_col(l)
            /\ df' = read_csv(l, v)
            /\ out' = out \cup {"upload_success"}
            /\ pc' = "step2"
    /\ UNCHANGED <<auto_label_col, auto_value_col, label_col, value_col,
                   groups, group_keys, f_stat, p_value, tukey>>

\* st.file_uploader: no file (st.stop()), or a file that is read
Upload ==
    /\ pc = "upload"
    /\ \/ /\ pc' = "stopped"
          /\ UNCHANGED <<df, out>>
       \/ \E n \in 1..MaxRows : \E l \in [1..n -> LabelCells], v \in [1..n -> ValueCells] :
            /\ is_object_col(l)
            /\ df' = read_csv(l, v)
            /\ out' = out \cup {"upload_success"}
            /\ pc' = "step2"
    /\ UNCHANGED <<auto_label_col, auto_value_col, label_col, value_col,
                   groups, group_keys, f_stat, p_value, tukey>>

(***************************************************************************)
(* Step 2 - Column Detection.                                              *)
(***************************************************************************)
\* the first categorical column with nunique() > 1 and nunique() < 20
first_label_col(cat) ==
    LET ok == {c \in 1..Len(cat) : nunique(cat[c]) > 1 /\ nunique(cat[c]) < 20}
    IN IF ok = {} THEN None ELSE CHOOSE c \in ok : \A e \in ok : c <= e

\* the first numeric column with notna().sum() > 10
first_value_col(num) ==
    LET ok == {c \in 1..Len(num) : notna_sum(num[c]) > 10}
    IN IF ok = {} THEN None ELSE CHOOSE c \in ok : \A e \in ok : c <= e

\* st.selectbox: the user keeps the preselected option or picks another one;
\* with no options the widget returns None
selectbox(options) == IF options = {} THEN {None} ELSE options

Step2 ==
    /\ pc = "step2"
    /\ auto_label_col' = first_label_col(df.cat)
    /\ auto_value_col' = first_value_col(df.num)
    /\ out' = IF auto_label_col' = None \/ auto_value_col' = None
              THEN out \cup {"detect_warning"} ELSE out
    /\ label_col' \in selectbox(1..Len(df.cat))
    /\ value_col' \in selectbox(1..Len(df.num))
    /\ pc' = "step3"
    /\ UNCHANGED <<df, groups, group_keys, f_stat, p_value, tukey>>

(***************************************************************************)
(* Step 3 - Run ANOVA Test.                                                *)
(***************************************************************************)
Step3 ==
    /\ pc = "step3"
    /\ label_col # None /\ value_col # None
    /\ groups' = select_groups(df.cat[label_col], df.num[value_col])
    /\ group_keys' = kept_keys(df.cat[label_col])
    /\ IF Len(groups') < 2
       THEN /\ out' = out \cup {"not_enough_groups"}
            /\ pc' = "stopped"
            /\ UNCHANGED <<f_stat, p_value>>
       ELSE /\ f_stat' = f_oneway(groups').f
            /\ p_value' = f_oneway(groups').p
            /\ out' = out \cup {"f_stat", "p_value",
                                IF significant(p_value') THEN "significant"
                                                         ELSE "not_significant"}
            /\ pc' = "step4"
    /\ UNCHANGED <<df, auto_label_col, auto_value_col, label_col, value_col, tukey>>

(***************************************************************************)
(* Step 4 - Group Means, Step 5 - Visualisation.                           *)
(***************************************************************************)
Step4 ==
    /\ pc = "step4"
    /\ out' = out \cup {"means"}
    /\ pc' = "step5"
    /\ UNCHANGED <<df, auto_label_col, auto_value_col, label_col, value_col,
                   groups, group_keys, f_stat, p_value, tukey>>

Step5 ==
    /\ pc = "step5"
    /\ out' = out \cup {"plot"}
    /\ pc' = "step6"
    /\ UNCHANGED <<df, auto_label_col, auto_value_col, label_col, value_col,
                   groups, group_keys, f_stat, p_value, tukey>>

(***************************************************************************)
(* Step 6 - Post-hoc Analysis (Tukey HSD).  pairwise_tukeyhsd is given the *)
(* two columns of the data frame; whether it returns or raises is the      *)
(* library's.                                                              *)
(***************************************************************************)
\* Step 6 without its "if p_value < 0.05"
Step6_ungated ==
    /\ pc = "step6"
    /\ \E raised \in BOOLEAN :
         /\ tukey' = [called |-> TRUE, endog |-> df.num[value_col],
                      groups |-> df.cat[label_col], raised |-> raised]
         /\ out' = out \cup {IF raised THEN "tukey_warning" ELSE "tukey_summary"}
    /\ pc' = "step7"
    /\ UNCHANGED <<df, auto_label_col, auto_value_col, label_col, value_col,
                   groups, group_keys, f_stat, p_value>>

\* Step 6 without its try/except: an exception of pairwise_tukeyhsd ends the run
Step6_propagates ==
    /\ pc = "step6"
    /\ IF significant(p_value)
       THEN \E raised \in BOOLEAN :
              /\ tukey' = [called |-> TRUE, endog |-> df.num[value_col],
                           groups |-> df.cat[label_col], raised |-> raised]
              /\ out' = IF raised THEN out ELSE out \cup {"tukey_summary"}
              /\ pc' = IF raised THEN "crashed" ELSE "step7"
       ELSE /\ out' = out \cup {"tukey_not_required"}
            /\ pc' = "step7"
            /\ UNCHANGED tukey
    /\ UNCHANGED <<df, auto_label_col, auto_value_col, label_col, value_col,
                   groups, group_keys, f_stat, p_value>>

Step6 ==
    /\ pc = "step6"
    /\ IF significant(p_value)
       THEN \E raised \in BOOLEAN :
              /\ tukey' = [called |-> TRUE, endog |-> df.num[value_col],
                           groups |-> df.cat[label_col], raised |-> raised]
              /\ out' = out \cup {IF raised THEN "tukey_warning" ELSE "tukey_summary"}
       ELSE /\ out' = out \cup {"tukey_not_required"}
            /\ UNCHANGED tukey
    /\ pc' = "step7"
    /\ UNCHANGED <<df, auto_label_col, auto_value_col, label_col, value_col,
                   groups, group_keys, f_stat, p_value>>

(***************************************************************************)
(* Step 7 - Interpretation.                                                *)
(***************************************************************************)
Step7 ==
    /\ pc = "step7"
    /\ out' = out \cup {IF significant(p_value) THEN "interp_significant"
                                                ELSE "interp_stable"}
    /\ pc' = "done"
    /\ UNCHANGED <<df, auto_label_col, auto_value_col, label_col, value_col,
                   groups, group_keys, f_stat, p_value, tukey>>

Init ==
    /\ pc = "load"
    /\ df = NoDf
    /\ out = {}
    /\ auto_label_col = None
    /\ auto_value_col = None
    /\ label_col = None
    /\ value_col = None
    /\ groups = <<>>
    /\ group_keys = <<>>
    /\ f_stat = NoStat
    /\ p_value = NoStat
    /\ tukey = NoTukey

Next ==
    \/ Fetch
    \/ Upload
    \/ Step2
    \/ Step3
    \/ Step4
    \/ Step5
    \/ Step6
    \/ Step7

Spec == Init /\ [][Next]_vars

(***************************************************************************)
(* Column detection on its own: frames of MaxDistinct rows whose           *)
(* categorical columns hold 1..MaxDistinct distinct labels (the other      *)
(* cells missing) and whose numeric column holds 10 or 11 observations.    *)
(***************************************************************************)
distinct_col(d) == [i \in 1..MaxDistinct |-> IF i <= d THEN i ELSE NA]

observed_col(c) == [i \in 1..MaxDistinct |-> IF i <= c THEN 0 ELSE NA]

InitDetect ==
    /\ pc = "step2"
    /\ \E k \in 0..MaxCatCols : \E ds \in [1..k -> 1..MaxDistinct], c \in {10, 11} :
         df = [cat |-> [i \in 1..k |-> distinct_col(ds[i])], num |-> <<observed_col(c)>>]
    /\ out = {"load_success"}
    /\ auto_label_col = None
    /\ auto_value_col = None
    /\ label_col = None
    /\ value_col = None
    /\ groups = <<>>
    /\ group_keys = <<>>
    /\ f_stat = NoStat
    /\ p_value = NoStat
    /\ tukey = NoTukey

SpecDetect == InitDetect /\ [][Step2]_vars

(***************************************************************************)
(* The evaluation on its own, the f_oneway call and the significance       *)
(* message: lists of 2 or more groups of 2 or more observations,           *)
(* MaxTotalObs observations at most in all, a group being a multiset,      *)
(* written in ascending order.                                             *)
(***************************************************************************)
ObsOfSize(n) == {g \in [1..n -> EvalValues] : \A i \in 1..(n - 1) : g[i] <= g[i + 1]}

SizeLists ==
    UNION {{ns \in [1..k -> 2..MaxTotalObs] : SumSeq(ns) <= MaxTotalObs}
           : k \in 2..(MaxTotalObs \div 2)}

RECURSIVE GroupLists(_)
GroupLists(ns) ==
    IF ns = <<>> THEN {<<>>}
    ELSE {<<g>> \o rest : g \in ObsOfSize(Head(ns)), rest \in GroupLists(Tail(ns))}

Evaluate ==
    /\ pc = "eval"
    /\ f_stat' = f_oneway(groups).f
    /\ p_value' = f_oneway(groups).p
    /\ out' = out \cup {"f_stat", "p_value",
                        IF significant(p_value') THEN "significant"
                                                 ELSE "not_significant"}
    /\ pc' = "evaluated"
    /\ UNCHANGED <<df, auto_label_col, auto_value_col, label_col, value_col,
                   groups, group_keys, tukey>>

InitEval ==
    /\ pc = "eval"
    /\ df = NoDf
    /\ out = {}
    /\ auto_label_col = None
    /\ auto_value_col = None
    /\ label_col = None
    /\ value_col = None
    /\ \E ns \in SizeLists : groups \in GroupLists(ns)
    /\ group_keys = <<>>
    /\ f_stat = NoStat
    /\ p_value = NoStat
    /\ tukey = NoTukey

SpecEval == InitEval /\ [][Evaluate]_vars

(***************************************************************************)
(* Properties.                                                             *)
(***************************************************************************)
\* the evaluator has been handed the groups and the run has gone on
Evaluated == pc \in {"step4", "step5", "step6", "step7", "done"}

PostHocDone == pc \in {"step7", "done"}

\* the labels with at least 2 rows whose value is present
non_degenerate_keys(labels, values) ==
    {k \in Range(labels) \ {NA} :
        Cardinality({i \in DOMAIN labels : labels[i] = k /\ values[i] # NA}) >= 2}

LaterOutputs ==
    {"f_stat", "p_value", "significant", "not_significant", "means", "plot",
     "tukey_summary", "tukey_warning", "tukey_not_required",
     "interp_significant", "interp_stable"}

\* C1: Tukey HSD is invoked only in a run whose p-value is below 0.05 and
\* that reported a significant result; in a run whose p-value is not below
\* 0.05, once Step 6 is over, Tukey HSD has not been invoked, the "not
\* required" notice is out and no pairwise result or Tukey warning is.
C1_PostHocGating ==
    /\ tukey.called => (significant(p_value) /\ "significant" \in out)
    /\ (PostHocDone /\ ~significant(p_value)) =>
          /\ ~tukey.called
          /\ "tukey_not_required" \in out
          /\ out \cap {"tukey_summary", "tukey_warning"} = {}
    /\ "tukey_not_required" \in out => ~significant(p_value)

C1_Witness ==
    /\ pc = "done"
    /\ p_value.kind = "sf"
    /\ ~significant(p_value)
    /\ "tukey_not_required" \in out

\* C2: a run whose column pair yields fewer than 2 non-degenerate groups
\* stops at Step 3 with the "not enough valid groups" warning, without an
\* F statistic, a p-value, a significance message or any later output.
C2_InsufficientGroupsRefused ==
    (/\ pc \in {"step4", "step5", "step6", "step7", "done", "stopped"}
     /\ label_col # None
     /\ Cardinality(non_degenerate_keys(df.cat[label_col], df.num[value_col])) < 2)
    => /\ pc = "stopped"
       /\ "not_enough_groups" \in out
       /\ f_stat = NoStat
       /\ p_value = NoStat
       /\ out \cap LaterOutputs = {}

\* C3: every group handed to the evaluator holds at least 2 observations.
C3_GroupsHaveTwoObservations ==
    Evaluated => \A i \in DOMAIN groups : Len(groups[i]) >= 2

\* C4: the automatically selected label column is the first categorical
\* column whose distinct-value count lies in [2, 20], or none when no
\* categorical column has such a count.
C4_ClosedWindow ==
    pc = "step3" =>
        LET adm == {c \in 1..Len(df.cat) :
                       nunique(df.cat[c]) >= 2 /\ nunique(df.cat[c]) <= 20}
        IN auto_label_col = IF adm = {} THEN None
                            ELSE CHOOSE c \in adm : \A e \in adm : c <= e

\* C5: an evaluation of non-degenerate groups whose within-group sum of
\* squares is 0 and whose between-group sum of squares is positive yields
\* F = +infinity and p = 0, and the result is reported as significant.
C5_ZeroWithinVariance ==
    (pc = "evaluated" /\ ss_within(groups) = 0 /\ ss_between(groups) > 0)
    => /\ f_stat = Inf
       /\ p_value = Zero
       /\ "significant" \in out
       /\ "not_significant" \notin out

C5_Witness ==
    /\ pc = "evaluated"
    /\ Len(groups) = 3
    /\ ss_within(groups) = 0
    /\ groups[1][1] # groups[2][1] /\ groups[1][1] # groups[3][1] /\ groups[2][1] # groups[3][1]
    /\ f_stat = Inf

\* C6: when Tukey HSD raises in a run whose ANOVA was significant, the
\* warning is out, the F statistic, the p-value and the significance
\* message stay reported, and the run goes on to the interpretation.
C6_PostHocFailureLocal ==
    (tukey.called /\ tukey.raised)
    => /\ "tukey_warning" \in out
       /\ {"f_stat", "p_value", "significant"} \subseteq out
       /\ f_stat # NoStat /\ p_value # NoStat
       /\ PostHocDone
       /\ pc = "done" => "interp_significant" \in out

C6_Witness ==
    /\ pc = "done"
    /\ tukey.called /\ tukey.raised
    /\ "interp_significant" \in out

C8_TukeySameGroupedData ==
    tukey.called =>
        /\ \A i \in DOMAIN tukey.endog :
              tukey.endog[i] # NA /\ tukey.groups[i] \in Range(group_keys)
        /\ select_groups(tukey.groups, tukey.endog) = groups

\* C9 as stated: the groups handed to the evaluator follow the order of the
\* first occurrence of their keys in the rows.
C9_FirstOccurrenceOrder ==
    Evaluated =>
        \A i, j \in DOMAIN group_keys :
            i < j => first_index(df.cat[label_col], group_keys[i])
                       < first_index(df.cat[label_col], group_keys[j])

\* C9 amended: the groups handed to the evaluator follow the ascending order
\* of their keys, each group holding the present values of its key's rows
\* in row order.
C9_SortedKeyOrder ==
    Evaluated =>
        /\ Len(groups) = Len(group_keys)
        /\ \A i, j \in DOMAIN group_keys : i < j => group_keys[i] < group_keys[j]
        /\ \A i \in DOMAIN groups :
              groups[i] = dropna(Pick(df.num[value_col],
                                      group_rows(df.cat[label_col], group_keys[i])))

C9_Witness ==
    /\ Evaluated
    /\ Len(group_keys) = 2
    /\ first_index(df.cat[label_col], group_keys[2])
         < first_index(df.cat[label_col], group_keys[1])

\* C10: every step from Step 2 on runs on a data set that the fetch, or the
\* upload after a failed fetch, has read; a run whose fetch failed and that
\* got no file has stopped with nothing but the load error; a run whose
\* fetch succeeded has not shown the uploader.
C10_LoadGating ==
    /\ pc \notin {"load", "upload", "stopped"} =>
          /\ df # NoDf
          /\ \/ "load_success" \in out
             \/ {"load_error", "upload_success"} \subseteq out
    /\ df = NoDf =>
          /\ pc \in {"load", "upload", "stopped"}
          /\ out \subseteq {"load_error"}
          /\ label_col = None /\ value_col = None /\ groups = <<>>
          /\ pc = "stopped" => out = {"load_error"}
    /\ "load_success" \in out => out \cap {"load_error", "upload_success"} = {}

C10_Witness ==
    /\ pc = "done"
    /\ {"load_error", "upload_success"} \subseteq out

====
